---- MODULE Spec2Model ----
(***************************************************************************)
(* State-machine model of the text scanner of src/scanner.go.              *)
(*                                                                         *)
(* A text is a Go string: a sequence of bytes.  Runes are integers.  The   *)
(* scanner state is the embedded TextPosition (pos), markedPos and         *)
(* isComplexSinceMark; text never changes after construction.              *)
(*                                                                         *)
(* op, ret and prev record the last call, what it returned and the scanner *)
(* state it was called in; popped records the UTF-8 text of the            *)
(* non-sentinel runes that Pop calls returned since the mark or the         *)
(* position was last set.                                                  *)
(*                                                                         *)
(* The helpers ForEach and Stream run a scanner of their own: pc is the    *)
(* place their loop is at, fn the predicate handed to ForEach, calls the   *)
(* spans handed to fn or received from the channel, closed whether the     *)
(* channel of Stream is closed and consumer what the receiver of that      *)
(* channel is doing.  They are idle while a scanner is used directly.      *)
(***************************************************************************)
EXTENDS Integers, Sequences, FiniteSets, TLC

VARIABLES text, pos, markedPos, isComplexSinceMark, op, ret, prev, popped,
          pc, fn, calls, closed, consumer

\* the scanner and the record of its last call
scannerVars ==
    <<text, pos, markedPos, isComplexSinceMark, op, ret, prev, popped>>

\* the state of ForEach and Stream
helperVars == <<pc, fn, calls, closed, consumer>>

vars == <<scannerVars, helperVars>>

(***************************************************************************)
(* Bounds of the model.                                                    *)
(***************************************************************************)
\* longest text, in bytes
MaxLen == 4
\* longest text, in bytes, of a scanner whose position is set from outside
MaxJumpLen == 2
\* longest text, in bytes, handed to ForEach and Stream
MaxIterLen == 3
\* largest n handed to PopN and PeekN
MaxN == 2
\* number of repeated Peek calls examined from one state
MaxPeeks == 3

(***************************************************************************)
(* Runes and bytes.                                                        *)
(***************************************************************************)
EOF == -1
LF == 10
CR == 13
Backslash == 92
RuneError == 65533

\* The source characters of the model, as their UTF-8 encodings: 'a', LF,
\* CR, backslash and the two-byte character U+00E9.
Chars == { <<97>>, <<LF>>, <<CR>>, <<Backslash>>, <<195, 169>> }

\* the texts "a\nb", "a\rb" and "a\r\nb" of the position tests
BreakTexts == { <<97, LF, 98>>, <<97, CR, 98>>, <<97, CR, LF, 98>> }

RECURSIVE TextsUpTo(_)
\* every well-formed UTF-8 text over Chars of at most n bytes
TextsUpTo(n) ==
    IF n = 0 THEN { <<>> }
    ELSE LET S == TextsUpTo(n - 1)
         IN S \cup { u \in { t \o c : t \in S, c \in Chars } : Len(u) <= n }

\* utf8.DecodeRuneInString(t[off:]) for lead bytes below 0xE0: the rune and
\* its width; an invalid or truncated encoding is (RuneError, 1).
DecodeRuneInString(t, off) ==
    LET n == Len(t) - off
    IN IF n < 1 THEN [r |-> RuneError, w |-> 0]
       ELSE LET b0 == t[off + 1]
            IN IF b0 < 128 THEN [r |-> b0, w |-> 1]
               ELSE IF /\ b0 >= 194 /\ b0 <= 223 /\ n >= 2
                       /\ t[off + 2] >= 128 /\ t[off + 2] <= 191
                    THEN [r |-> (b0 - 192) * 64 + (t[off + 2] - 128), w |-> 2]
                    ELSE [r |-> RuneError, w |-> 1]

\* string(rune): the UTF-8 encoding of a rune of the basic plane
EncodeRune(r) ==
    IF r < 128 THEN <<r>>
    ELSE IF r < 2048 THEN <<192 + (r \div 64), 128 + (r % 64)>>
    ELSE <<224 + (r \div 4096), 128 + ((r \div 64) % 64), 128 + (r % 64)>>

RECURSIVE ReplaceAll(_, _, _)
\* strings.ReplaceAll for a non-empty old: non-overlapping, left to right
ReplaceAll(s, old, new) ==
    IF Len(s) < Len(old) THEN s
    ELSE IF SubSeq(s, 1, Len(old)) = old
         THEN new \o ReplaceAll(SubSeq(s, Len(old) + 1, Len(s)), old, new)
         ELSE <<Head(s)>> \o ReplaceAll(Tail(s), old, new)

(***************************************************************************)
(* Positions, spans and the scanner record.                                *)
(***************************************************************************)
TextPosition(o, l, c) == [Offset |-> o, Line |-> l, Col |-> c]

RuneSpan(r, p, e) == [Rune |-> r, Pos |-> p, End |-> e]

\* the Scanner struct without its text
ScannerRec(p, m, c) == [pos |-> p, markedPos |-> m, isComplexSinceMark |-> c]

NewScannerAt(startingPosition) ==
    ScannerRec(startingPosition, startingPosition, FALSE)

NewScanner == NewScannerAt(TextPosition(0, 1, 1))

\* the scanner of the current state
Scanner == ScannerRec(pos, markedPos, isComplexSinceMark)

IsEOFIgnoresNegative(t, s) == s.pos.Offset >= Len(t)

IsEOFOffByOne(t, s) == s.pos.Offset < 0 \/ s.pos.Offset > Len(t)

IsEOFOf(t, s) == s.pos.Offset < 0 \/ s.pos.Offset >= Len(t)

(***************************************************************************)
(* Pop.  A result is [r |-> rune, s |-> scanner afterwards].               *)
(***************************************************************************)
PopAtEOFMovesColumn(s) ==
    [r |-> EOF, s |-> [s EXCEPT !.pos.Col = @ + 1]]

\* the guard of Pop: nothing changes at end of input
PopAtEOF(s) == [r |-> EOF, s |-> s]

AdvanceColumnByWidth(s, w) ==
    [s EXCEPT !.pos.Offset = @ + w, !.pos.Col = @ + w]

\* Offset += w; Col++
Advance(s, w) ==
    [s EXCEPT !.pos.Offset = @ + w, !.pos.Col = @ + 1]

PopLineFeedKeepsLine(s) ==
    [r |-> LF, s |-> [s EXCEPT !.pos.Col = 1]]

\* case '\n', entered after Advance
PopLineFeed(s) ==
    [r |-> LF, s |-> [s EXCEPT !.pos.Line = @ + 1, !.pos.Col = 1]]

PopCarriageReturnUnguarded(t, s) ==
    [r |-> LF,
     s |-> [s EXCEPT !.pos.Line = @ + 1, !.pos.Col = 1,
                     !.pos.Offset = @ + 1,
                     !.isComplexSinceMark = TRUE]]

PopCarriageReturnKeepsLF(t, s) ==
    [r |-> LF,
     s |-> [s EXCEPT !.pos.Line = @ + 1, !.pos.Col = 1,
                     !.isComplexSinceMark = TRUE]]

\* case '\r', entered after Advance: a following LF is consumed too
PopCarriageReturn(t, s) ==
    LET s1 == [s EXCEPT !.pos.Line = @ + 1, !.pos.Col = 1,
                        !.isComplexSinceMark = TRUE]
        s2 == IF /\ ~IsEOFOf(t, s1)
                 /\ DecodeRuneInString(t, s1.pos.Offset).r = LF
              THEN [s1 EXCEPT !.pos.Offset =
                                 @ + DecodeRuneInString(t, s1.pos.Offset).w]
              ELSE s1
    IN [r |-> LF, s |-> s2]

RECURSIVE PopOf(_, _)

EscapedBreakReturnsBreak(t, la) ==
    [r |-> la.r, s |-> [la.s EXCEPT !.isComplexSinceMark = TRUE]]

\* case '\\' when the lookahead returned '\n': the flag is set and the
\* result is that of another Pop
EscapedBreak(t, la) ==
    PopOf(t, [la.s EXCEPT !.isComplexSinceMark = TRUE])

LiteralBackslashRestoresStart(savedPos, la) ==
    [r |-> Backslash,
     s |-> [la.s EXCEPT !.pos = [savedPos EXCEPT !.Offset = @ - 1,
                                                 !.Col = @ - 1]]]

LiteralBackslashKeepsLookahead(savedPos, la) ==
    [r |-> Backslash, s |-> la.s]

\* case '\\' when the lookahead returned anything else: the position is
\* reset to savedPos (the flag is not) and the backslash is returned
LiteralBackslash(savedPos, la) ==
    [r |-> Backslash, s |-> [la.s EXCEPT !.pos = savedPos]]

\* Scanner.Pop
PopOf(t, s) ==
    IF IsEOFOf(t, s) THEN PopAtEOF(s)
    ELSE LET d  == DecodeRuneInString(t, s.pos.Offset)
             s1 == Advance(s, d.w)
         IN CASE d.r = LF -> PopLineFeed(s1)
              [] d.r = CR -> PopCarriageReturn(t, s1)
              [] d.r = Backslash ->
                    LET la == PopOf(t, s1)
                    IN IF la.r # LF THEN LiteralBackslash(s1.pos, la)
                       ELSE EscapedBreak(t, la)
              [] OTHER -> [r |-> d.r, s |-> s1]

PopSpanStartsAtEnd(t, s) ==
    LET res == PopOf(t, s)
    IN [span |-> RuneSpan(res.r, res.s.pos, res.s.pos), s |-> res.s]

\* Scanner.PopSpan: [span, s]
PopSpanOf(t, s) ==
    LET res == PopOf(t, s)
    IN [span |-> RuneSpan(res.r, s.pos, res.s.pos), s |-> res.s]

PeekKeepsPosition(t, s) == PopOf(t, s)

\* Scanner.Peek
PeekOf(t, s) ==
    LET res == PopOf(t, s)
    IN [r |-> res.r, s |-> [res.s EXCEPT !.pos = s.pos]]

PeekSpanRestoresOffsetOnly(t, s) ==
    LET res == PopSpanOf(t, s)
    IN [span |-> res.span,
        s |-> [res.s EXCEPT !.pos.Offset = res.span.Pos.Offset]]

\* Scanner.PeekSpan
PeekSpanOf(t, s) ==
    LET res == PopSpanOf(t, s)
    IN [span |-> res.span, s |-> [res.s EXCEPT !.pos = res.span.Pos]]

NextPeeksFirst(t, s) ==
    LET pk == PeekOf(t, s)
    IN [r |-> pk.r, s |-> PopOf(t, pk.s).s]

\* Scanner.Next
NextOf(t, s) == PeekOf(t, PopOf(t, s).s)

\* Scanner.NextSpan
NextSpanOf(t, s) == PeekSpanOf(t, PopOf(t, s).s)

MarkKeepsFlag(s) == [s EXCEPT !.markedPos = s.pos]

\* Scanner.Mark
MarkOf(s) == [s EXCEPT !.markedPos = s.pos, !.isComplexSinceMark = FALSE]

MarkedReturnsPosition(s) == s.pos

\* Scanner.Marked
MarkedOf(s) == s.markedPos

(***************************************************************************)
(* Slice and SliceInc.  A result is [ok, str, s]; ok is FALSE when the     *)
(* slice expression text[a:b] is out of range, which is a run-time panic.  *)
(***************************************************************************)
\* the three replacements of Slice and SliceInc
Normalize(slice) ==
    ReplaceAll(ReplaceAll(ReplaceAll(slice, <<CR, LF>>, <<LF>>),
                          <<CR>>, <<LF>>),
               <<Backslash, LF>>, <<>>)

\* text[a:b] is in range
InRange(t, a, b) == 0 <= a /\ a <= b /\ b <= Len(t)

SliceNeverNormalizes(t, s) ==
    IF s.markedPos.Offset >= Len(t) THEN [ok |-> TRUE, str |-> <<>>, s |-> s]
    ELSE IF ~InRange(t, s.markedPos.Offset, s.pos.Offset)
         THEN [ok |-> FALSE, str |-> <<>>, s |-> s]
         ELSE [ok |-> TRUE,
               str |-> SubSeq(t, s.markedPos.Offset + 1, s.pos.Offset),
               s |-> s]

\* Scanner.Slice
SliceOf(t, s) ==
    IF s.markedPos.Offset >= Len(t) THEN [ok |-> TRUE, str |-> <<>>, s |-> s]
    ELSE IF ~InRange(t, s.markedPos.Offset, s.pos.Offset)
         THEN [ok |-> FALSE, str |-> <<>>, s |-> s]
         ELSE LET slice == SubSeq(t, s.markedPos.Offset + 1, s.pos.Offset)
              IN [ok |-> TRUE,
                  str |-> IF s.isComplexSinceMark THEN Normalize(slice)
                          ELSE slice,
                  s |-> s]

SliceIncWithoutMarkGuard(t, s) ==
    LET res    == PopOf(t, s)
        endIdx == res.s.pos.Offset
        s1     == [res.s EXCEPT !.pos = s.pos]
    IN IF ~InRange(t, s.markedPos.Offset, endIdx)
       THEN [ok |-> FALSE, str |-> <<>>, s |-> s1]
       ELSE LET slice == SubSeq(t, s.markedPos.Offset + 1, endIdx)
            IN [ok |-> TRUE,
                str |-> IF s1.isComplexSinceMark THEN Normalize(slice)
                        ELSE slice,
                s |-> s1]

\* Scanner.SliceInc (SliceIncl in the older variant)
SliceIncOf(t, s) ==
    IF s.markedPos.Offset >= Len(t) THEN [ok |-> TRUE, str |-> <<>>, s |-> s]
    ELSE LET res    == PopOf(t, s)
             endIdx == res.s.pos.Offset
             s1     == [res.s EXCEPT !.pos = s.pos]
         IN IF ~InRange(t, s.markedPos.Offset, endIdx)
            THEN [ok |-> FALSE, str |-> <<>>, s |-> s1]
            ELSE LET slice == SubSeq(t, s.markedPos.Offset + 1, endIdx)
                 IN [ok |-> TRUE,
                     str |-> IF s1.isComplexSinceMark THEN Normalize(slice)
                             ELSE slice,
                     s |-> s1]

(***************************************************************************)
(* PopN and PeekN.                                                         *)
(***************************************************************************)
RECURSIVE PopTimes(_, _, _)
\* for range n { scanner.Pop() }: the scanner afterwards and the text of
\* the non-sentinel runes returned
PopTimes(t, s, n) ==
    IF n <= 0 THEN [s |-> s, out |-> <<>>]
    ELSE LET res  == PopOf(t, s)
             rest == PopTimes(t, res.s, n - 1)
         IN [s |-> rest.s,
             out |-> (IF res.r = EOF THEN <<>> ELSE EncodeRune(res.r))
                     \o rest.out]

\* Scanner.PopN
PopNOf(t, s, n) ==
    LET previousMarkedPos == s.markedPos
        after == PopTimes(t, s, n).s
        sl    == SliceOf(t, after)
    IN [ok |-> sl.ok, str |-> sl.str,
        s |-> [after EXCEPT !.markedPos = previousMarkedPos]]

PeekNKeepsPosition(t, s, n) ==
    LET previousMarkedPos == s.markedPos
        after == PopTimes(t, s, n).s
        sl    == SliceOf(t, after)
    IN [ok |-> sl.ok, str |-> sl.str,
        s |-> [after EXCEPT !.markedPos = previousMarkedPos]]

\* Scanner.PeekN
PeekNOf(t, s, n) ==
    LET previousPos == s.pos
        previousMarkedPos == s.markedPos
        after == PopTimes(t, s, n).s
        sl    == SliceOf(t, after)
    IN [ok |-> sl.ok, str |-> sl.str,
        s |-> [after EXCEPT !.pos = previousPos,
                            !.markedPos = previousMarkedPos]]

(***************************************************************************)
(* The state machine.                                                      *)
(***************************************************************************)
ZeroPos == TextPosition(0, 0, 0)

\* the return value of a call that returns nothing
NoRet == [Rune |-> 0, Pos |-> ZeroPos, End |-> ZeroPos, Str |-> <<>>,
          Bool |-> FALSE, Ok |-> TRUE]

RetRune(r) == [NoRet EXCEPT !.Rune = r]

RetSpan(span) ==
    [NoRet EXCEPT !.Rune = span.Rune, !.Pos = span.Pos, !.End = span.End]

\* the span a call returned
RetAsSpan == RuneSpan(ret.Rune, ret.Pos, ret.End)

RetStr(res) == [NoRet EXCEPT !.Str = res.str, !.Ok = res.ok]

\* text of a returned rune, empty for the sentinel
TextOf(r) == IF r = EOF THEN <<>> ELSE EncodeRune(r)

\* no ForEach and no Stream is running
Idle ==
    /\ pc = "none"
    /\ fn = "none"
    /\ calls = <<>>
    /\ closed = FALSE
    /\ consumer = "none"

\* a call named name returned r and left the scanner as s; out is the text
\* of what its Pop calls returned
Step(name, s, r, out) ==
    /\ op' = name
    /\ ret' = r
    /\ prev' = Scanner
    /\ pos' = s.pos
    /\ markedPos' = s.markedPos
    /\ isComplexSinceMark' = s.isComplexSinceMark
    /\ popped' = out
    /\ UNCHANGED text

\* a call made on a scanner directly
Call(name, s, r, out) == Step(name, s, r, out) /\ UNCHANGED helperVars

\* the texts a scanner is made for
Texts == TextsUpTo(MaxLen) \cup BreakTexts

Init ==
    /\ text \in Texts
    /\ pos = NewScanner.pos
    /\ markedPos = NewScanner.markedPos
    /\ isComplexSinceMark = NewScanner.isComplexSinceMark
    /\ op = "NewScanner"
    /\ ret = NoRet
    /\ prev = NewScanner
    /\ popped = <<>>
    /\ Idle

Pop ==
    LET res == PopOf(text, Scanner)
    IN Call("Pop", res.s, RetRune(res.r), popped \o TextOf(res.r))

PopSpan ==
    LET res == PopSpanOf(text, Scanner)
    IN Call("PopSpan", res.s, RetSpan(res.span),
            popped \o TextOf(res.span.Rune))

PopN ==
    \E n \in 0..MaxN :
        LET res == PopNOf(text, Scanner, n)
        IN Call("PopN", res.s, RetStr(res),
                popped \o PopTimes(text, Scanner, n).out)

Peek ==
    LET res == PeekOf(text, Scanner)
    IN Call("Peek", res.s, RetRune(res.r), popped)

PeekSpan ==
    LET res == PeekSpanOf(text, Scanner)
    IN Call("PeekSpan", res.s, RetSpan(res.span), popped)

PeekN ==
    \E n \in 0..MaxN :
        LET res == PeekNOf(text, Scanner, n)
        IN Call("PeekN", res.s, RetStr(res), popped)

Next ==
    LET res == NextOf(text, Scanner)
    IN Call("Next", res.s, RetRune(res.r),
            popped \o TextOf(PopOf(text, Scanner).r))

NextSpan ==
    LET res == NextSpanOf(text, Scanner)
    IN Call("NextSpan", res.s, RetSpan(res.span),
            popped \o TextOf(PopOf(text, Scanner).r))

Mark == Call("Mark", MarkOf(Scanner), NoRet, <<>>)

Slice ==
    LET res == SliceOf(text, Scanner)
    IN Call("Slice", res.s, RetStr(res), popped)

SliceInc ==
    LET res == SliceIncOf(text, Scanner)
    IN Call("SliceInc", res.s, RetStr(res), popped)

IsEOF ==
    Call("IsEOF", Scanner, [NoRet EXCEPT !.Bool = IsEOFOf(text, Scanner)],
         popped)

\* the operations of a scanner made by NewScanner whose position is never
\* set from outside
ScanStep ==
    \/ Pop \/ PopSpan \/ PopN
    \/ Peek \/ PeekSpan \/ PeekN
    \/ Next \/ NextSpan
    \/ Mark \/ Slice \/ SliceInc \/ IsEOF

Spec == Init /\ [][ScanStep]_vars

\* Pop, Mark and Slice only
PopStep == Pop \/ Mark \/ Slice

SpecPop == Init /\ [][PopStep]_vars

\* Pop, Mark, Slice and SliceInc only
SliceStep == Pop \/ Mark \/ Slice \/ SliceInc

SpecSlice == Init /\ [][SliceStep]_vars

\* the positions handed to SetPos and NewScannerAt: every offset from one
\* before the text to one after its end, at line 1, column 1
JumpPositions(t) ==
    { TextPosition(o, 1, 1) : o \in (0 - 1)..(Len(t) + 1) }

InitAt ==
    /\ text \in TextsUpTo(MaxJumpLen)
    /\ \E p \in JumpPositions(text) :
          /\ pos = NewScannerAt(p).pos
          /\ markedPos = NewScannerAt(p).markedPos
          /\ isComplexSinceMark = NewScannerAt(p).isComplexSinceMark
          /\ prev = NewScannerAt(p)
    /\ op = "NewScannerAt"
    /\ ret = NoRet
    /\ popped = <<>>
    /\ Idle

SetPosClampsNegative(s, p) ==
    [s EXCEPT !.pos = IF p.Offset < 0 THEN [p EXCEPT !.Offset = 0] ELSE p]

\* Scanner.SetPos
SetPosOf(s, p) == [s EXCEPT !.pos = p]

SetPos ==
    \E p \in JumpPositions(text) :
        Call("SetPos", SetPosOf(Scanner, p), NoRet, <<>>)

\* every operation of a scanner made by NewScannerAt
JumpStep == ScanStep \/ SetPos

SpecJump == InitAt /\ [][JumpStep]_vars

(***************************************************************************)
(* ForEach.                                                                *)
(***************************************************************************)
\* the fn handed to ForEach: nil, or a function
Predicates == {"nil", "func"}

\* scanner := NewScanner(text)
InitForEach ==
    /\ text \in TextsUpTo(MaxIterLen)
    /\ pos = NewScanner.pos
    /\ markedPos = NewScanner.markedPos
    /\ isComplexSinceMark = NewScanner.isComplexSinceMark
    /\ op = "ForEach"
    /\ ret = NoRet
    /\ prev = NewScanner
    /\ popped = <<>>
    /\ pc = "loop"
    /\ fn \in Predicates
    /\ calls = <<>>
    /\ closed = FALSE
    /\ consumer = "none"

ForEachStopsAtLineFeed(t, s) ==
    LET res == PopSpanOf(t, s)
    IN [span |-> res.span, s |-> res.s,
        pc |-> IF res.span.Rune \in {EOF, LF} THEN "returned" ELSE "fn"]

\* span := scanner.PopSpan(); span.Rune == EOF: return, or go on to fn(span)
ForEachPopOf(t, s) ==
    LET res == PopSpanOf(t, s)
    IN [span |-> res.span, s |-> res.s,
        pc |-> IF res.span.Rune = EOF THEN "returned" ELSE "fn"]

ForEachPop ==
    /\ pc = "loop"
    /\ LET it == ForEachPopOf(text, Scanner)
       IN /\ Step("PopSpan", it.s, RetSpan(it.span),
                  popped \o TextOf(it.span.Rune))
          /\ pc' = it.pc
    /\ UNCHANGED <<fn, calls, closed, consumer>>

\* !fn(span) for a function: whatever it answers, it has been called with
\* the span; false ends ForEach
ForEachCall ==
    /\ pc = "fn"
    /\ fn = "func"
    /\ \E ok \in BOOLEAN :
          /\ calls' = Append(calls, [span |-> RetAsSpan, ok |-> ok])
          /\ pc' = IF ok THEN "loop" ELSE "returned"
    /\ UNCHANGED <<scannerVars, fn, closed, consumer>>

\* !fn(span) for nil: the call of a nil func panics
ForEachNilCall ==
    /\ pc = "fn"
    /\ fn = "nil"
    /\ pc' = "panicked"
    /\ UNCHANGED <<scannerVars, fn, calls, closed, consumer>>

ForEachStep == ForEachPop \/ ForEachCall \/ ForEachNilCall

SpecForEach == InitForEach /\ [][ForEachStep]_vars

(***************************************************************************)
(* Stream.  The producer is the goroutine of Stream, the consumer whoever  *)
(* holds the channel it returned.  The channel is unbuffered: a send       *)
(* completes together with a receive.                                      *)
(***************************************************************************)
\* ch := make(chan RuneSpan); scanner := NewScanner(text); go func() ...
InitStream ==
    /\ text \in TextsUpTo(MaxIterLen)
    /\ pos = NewScanner.pos
    /\ markedPos = NewScanner.markedPos
    /\ isComplexSinceMark = NewScanner.isComplexSinceMark
    /\ op = "Stream"
    /\ ret = NoRet
    /\ prev = NewScanner
    /\ popped = <<>>
    /\ pc = "pop"
    /\ fn = "none"
    /\ calls = <<>>
    /\ closed = FALSE
    /\ consumer = "receiving"

StreamClosesAtLineFeed(t, s) ==
    LET res == PopSpanOf(t, s)
    IN [span |-> res.span, s |-> res.s,
        pc |-> IF res.span.Rune \in {EOF, LF} THEN "return" ELSE "send"]

StreamPopKeepsPopping(t, s) ==
    LET res == PopSpanOf(t, s)
    IN [span |-> res.span, s |-> res.s,
        pc |-> IF res.span.Rune = EOF THEN "return" ELSE "pop"]

\* span := scanner.PopSpan(); span.Rune == EOF: return, or go on to the send
StreamPopOf(t, s) ==
    LET res == PopSpanOf(t, s)
    IN [span |-> res.span, s |-> res.s,
        pc |-> IF res.span.Rune = EOF THEN "return" ELSE "send"]

StreamPop ==
    /\ pc = "pop"
    /\ LET it == StreamPopOf(text, Scanner)
       IN /\ Step("PopSpan", it.s, RetSpan(it.span),
                  popped \o TextOf(it.span.Rune))
          /\ pc' = it.pc
    /\ UNCHANGED <<fn, calls, closed, consumer>>

\* ch <- span, together with the receive that takes it
StreamSend ==
    /\ pc = "send"
    /\ consumer = "receiving"
    /\ calls' = Append(calls, [span |-> RetAsSpan, ok |-> TRUE])
    /\ pc' = "pop"
    /\ UNCHANGED <<scannerVars, fn, closed, consumer>>

\* return: the deferred close(ch) runs and the goroutine ends
StreamClose ==
    /\ pc = "return"
    /\ closed' = TRUE
    /\ pc' = "done"
    /\ UNCHANGED <<scannerVars, fn, calls, consumer>>

\* a receive from the closed channel: the consumer's loop ends
StreamRangeEnds ==
    /\ consumer = "receiving"
    /\ closed
    /\ consumer' = "finished"
    /\ UNCHANGED <<scannerVars, pc, fn, calls, closed>>

\* the consumer leaves its loop and never receives again
StreamConsumerStops ==
    /\ consumer = "receiving"
    /\ ~closed
    /\ consumer' = "stopped"
    /\ UNCHANGED <<scannerVars, pc, fn, calls, closed>>

\* the goroutine runs whenever it can; a consumer that is receiving takes
\* what is sent and sees the close
StreamFairness ==
    /\ WF_vars(StreamPop)
    /\ WF_vars(StreamSend)
    /\ WF_vars(StreamClose)
    /\ WF_vars(StreamRangeEnds)

\* Stream with a consumer that keeps receiving
StreamStep == StreamPop \/ StreamSend \/ StreamClose \/ StreamRangeEnds

SpecStream == InitStream /\ [][StreamStep]_vars /\ StreamFairness

\* Stream with a consumer that may stop receiving at any time
StreamStopStep == StreamStep \/ StreamConsumerStops

SpecStreamStop == InitStream /\ [][StreamStopStep]_vars /\ StreamFairness

(***************************************************************************)
(* Properties.                                                             *)
(***************************************************************************)
PopOps == {"Pop", "PopSpan"}

\* the byte of text at a 0-based offset, 0 outside the text
ByteAt(t, off) == IF 0 <= off /\ off < Len(t) THEN t[off + 1] ELSE 0

\* C1 (as claimed): after any Pop calls, Mark and further Pop calls, Slice()
\* returns the concatenation of the non-sentinel characters that the Pop
\* calls since the mark returned.
C1_SliceIsPoppedText ==
    op = "Slice" => ret.Ok /\ ret.Str = popped

\* C2 (as claimed): IsEOF() is true exactly when the next Pop() returns the
\* sentinel.
C2_IsEOFIffPopReturnsEOF ==
    op = "Pop" => (IsEOFOf(text, prev) <=> ret.Rune = EOF)

\* C2 (amended): when IsEOF() is true the next Pop() returns the sentinel and
\* changes nothing; when IsEOF() is false the next Pop() consumes at least
\* one byte and returns a real character, except that a Pop() starting at a
\* backslash may return the sentinel, and then it has consumed the rest of
\* the text, so that IsEOF() is true afterwards.
C2_IsEOFAndPop ==
    op = "Pop" =>
        /\ IsEOFOf(text, prev) => ret.Rune = EOF /\ Scanner = prev
        /\ ~IsEOFOf(text, prev) =>
              /\ pos.Offset > prev.pos.Offset
              /\ ret.Rune = EOF =>
                    /\ ByteAt(text, prev.pos.Offset) = Backslash
                    /\ IsEOFOf(text, Scanner)

\* a Pop() that returned the sentinel although IsEOF() was false
C2_Witness ==
    op = "Pop" /\ ~IsEOFOf(text, prev) /\ ret.Rune = EOF

RuneOps == {"Pop", "PopSpan", "Peek", "PeekSpan", "Next", "NextSpan"}

\* C3 (as claimed): Peek and PeekSpan leave the position, the mark and the
\* dirty-since-mark flag as they were before the call.
C3_PeekChangesNothing ==
    op \in {"Peek", "PeekSpan"} => Scanner = prev

RECURSIVE PeekTimes(_, _, _)
\* the result of the last of n >= 1 Peek calls in a row
PeekTimes(t, s, n) ==
    IF n <= 1 THEN PeekOf(t, s) ELSE PeekTimes(t, PeekOf(t, s).s, n - 1)

\* C4: Peek() called again and again returns the character the first call
\* returned, and the position after every call is the position before the
\* first.
C4_PeekIdempotent ==
    op = "Peek" =>
        /\ pos = prev.pos
        /\ \A n \in 1..MaxPeeks :
              /\ PeekTimes(text, Scanner, n).r = ret.Rune
              /\ PeekTimes(text, Scanner, n).s.pos = prev.pos

\* a Peek() of a line break that is not at the start of the text
C4_Witness ==
    op = "Peek" /\ ret.Rune = LF /\ pos.Offset > 0

\* C5: PeekSpan() returns the span PopSpan() returns from the state of the
\* call and from the state after it, Peek() returns the character Pop()
\* returns, and the position afterwards is the position before the call,
\* which is the start of the span.
C5_PeekIsPopWithoutMoving ==
    /\ op = "PeekSpan" =>
          /\ RetAsSpan = PopSpanOf(text, prev).span
          /\ RetAsSpan = PopSpanOf(text, Scanner).span
          /\ pos = prev.pos
          /\ ret.Pos = pos
    /\ op = "Peek" =>
          /\ ret.Rune = PopOf(text, prev).r
          /\ ret.Rune = PopOf(text, Scanner).r
          /\ pos = prev.pos

\* a PeekSpan() of a character that ends a line
C5_Witness ==
    op = "PeekSpan" /\ ret.Rune # EOF /\ ret.End.Line > ret.Pos.Line

\* C6: Next() returns the character and reaches the position of Pop()
\* followed by Peek(), NextSpan() those of Pop() followed by PeekSpan(); the
\* position moves as by one Pop(), the mark stays, and a Peek() after the
\* call returns what the call returned.
C6_NextIsPopThenPeek ==
    /\ op = "Next" =>
          LET popd == PopOf(text, prev)
              peek == PeekOf(text, popd.s)
          IN /\ ret.Rune = peek.r
             /\ pos = peek.s.pos
             /\ pos = popd.s.pos
             /\ markedPos = prev.markedPos
             /\ PeekOf(text, Scanner).r = ret.Rune
    /\ op = "NextSpan" =>
          LET popd == PopOf(text, prev)
              peek == PeekSpanOf(text, popd.s)
          IN /\ RetAsSpan = peek.span
             /\ pos = peek.s.pos
             /\ pos = popd.s.pos
             /\ markedPos = prev.markedPos
             /\ PeekSpanOf(text, Scanner).span = RetAsSpan

\* a Next() that consumed a character and returned another one
C6_Witness ==
    op = "Next" /\ ret.Rune # EOF /\ pos.Offset > prev.pos.Offset

\* C7: at end of input Pop() returns the sentinel and changes nothing; a
\* Pop() that returned the sentinel leaves IsEOF() true; and from then on
\* every Pop, Peek and Next returns the sentinel without moving.
C7_EOFIsAbsorbing ==
    /\ (op \in PopOps /\ IsEOFOf(text, prev)) => Scanner = prev
    /\ (op \in PopOps /\ ret.Rune = EOF) => IsEOFOf(text, Scanner)
    /\ (op \in RuneOps /\ IsEOFOf(text, prev)) =>
          ret.Rune = EOF /\ pos = prev.pos
    /\ IsEOFOf(text, prev) => IsEOFOf(text, Scanner)

\* a Next() at the end of a text that is not empty
C7_Witness ==
    op = "Next" /\ IsEOFOf(text, prev) /\ ret.Rune = EOF /\ Len(text) > 0

\* C8: a Pop() at an LF, at a CR without LF after it, or at a CRLF returns
\* LF, moves the offset by 1, 1 and 2 bytes, adds one to the line and sets
\* the column to 1; a-LF-b, a-CR-b and a-CRLF-b all pop to a, LF, b and the
\* sentinel, at line 2, column 1 after the break.
C8_LineBreaksNormalized ==
    /\ (op \in PopOps /\ ~IsEOFOf(text, prev)) =>
          LET o  == prev.pos.Offset
              b  == ByteAt(text, o)
              b1 == ByteAt(text, o + 1)
              w  == IF b = CR /\ b1 = LF THEN 2 ELSE 1
          IN b \in {LF, CR} =>
                /\ ret.Rune = LF
                /\ pos = TextPosition(o + w, prev.pos.Line + 1, 1)
    /\ (text \in BreakTexts /\ op = "Pop" /\ markedPos.Offset = 0) =>
          /\ popped \in { <<97>>, <<97, LF>>, <<97, LF, 98>> }
          /\ Len(popped) = 2 => pos.Line = 2 /\ pos.Col = 1
          /\ Len(popped) = 3 => pos = TextPosition(Len(text), 2, 2)
          /\ ret.Rune = EOF => popped = <<97, LF, 98>>

\* the Pop() of the CRLF of a-CRLF-b
C8_Witness ==
    /\ text = <<97, CR, LF, 98>> /\ op = "Pop" /\ ret.Rune = LF
    /\ prev.pos.Offset = 1 /\ pos.Offset = 3

\* a backslash at off with a line break right after it
EscapedBreakAt(t, off) ==
    ByteAt(t, off) = Backslash /\ ByteAt(t, off + 1) \in {LF, CR}

\* the position right after the backslash-break pair at p
AfterPair(t, p) ==
    LET w == IF ByteAt(t, p.Offset + 1) = CR /\ ByteAt(t, p.Offset + 2) = LF
             THEN 2 ELSE 1
    IN TextPosition(p.Offset + 1 + w, p.Line + 1, 1)

RECURSIVE PairsAt(_, _)
\* the number of consecutive backslash-break pairs that start at p
PairsAt(t, p) ==
    IF EscapedBreakAt(t, p.Offset) THEN 1 + PairsAt(t, AfterPair(t, p)) ELSE 0

RECURSIVE AfterPairs(_, _, _)
\* the position after k consecutive backslash-break pairs from p
AfterPairs(t, p, k) ==
    IF k = 0 THEN p ELSE AfterPairs(t, AfterPair(t, p), k - 1)

\* C9: a Pop() that starts at k >= 1 consecutive backslash-break pairs skips
\* them all and returns what a Pop() started after the last of them (and
\* after any of them) returns, ending where that Pop() ends; the flag is
\* set.
C9_EscapedBreaksChain ==
    (op \in PopOps /\ EscapedBreakAt(text, prev.pos.Offset)) =>
        /\ isComplexSinceMark
        /\ \A k \in 1..PairsAt(text, prev.pos) :
              LET from == [prev EXCEPT !.pos = AfterPairs(text, prev.pos, k),
                                       !.isComplexSinceMark = TRUE]
                  res  == PopOf(text, from)
              IN /\ ret.Rune = res.r
                 /\ pos = res.s.pos
                 /\ pos.Offset >= AfterPairs(text, prev.pos, k).Offset

\* a Pop() that skipped two pairs
C9_Witness ==
    op = "Pop" /\ PairsAt(text, prev.pos) >= 2

\* C10 (as claimed): a Pop() that starts at a backslash whose next source
\* character is not CR or LF returns the backslash.
C10_OtherBackslashIsLiteral ==
    (/\ op \in PopOps
     /\ ByteAt(text, prev.pos.Offset) = Backslash
     /\ ~EscapedBreakAt(text, prev.pos.Offset)) =>
        ret.Rune = Backslash /\ pos.Offset = prev.pos.Offset + 1

\* C11: a Pop() that starts at a backslash whose lookahead Pop() returns
\* anything but LF returns the backslash and ends one byte and one column
\* after its start, on the same line, whatever the lookahead consumed; the
\* next Pop() returns what the lookahead returned.
C11_LiteralBackslashRestores ==
    (/\ op \in PopOps
     /\ ~IsEOFOf(text, prev)
     /\ ByteAt(text, prev.pos.Offset) = Backslash
     /\ PopOf(text, Advance(prev, 1)).r # LF) =>
        /\ ret.Rune = Backslash
        /\ pos = TextPosition(prev.pos.Offset + 1, prev.pos.Line,
                              prev.pos.Col + 1)
        /\ PopOf(text, Scanner).r = PopOf(text, Advance(prev, 1)).r

\* a literal backslash whose lookahead consumed more than one byte
C11_Witness ==
    /\ op = "Pop" /\ ret.Rune = Backslash
    /\ PopOf(text, Advance(prev, 1)).s.pos.Offset > pos.Offset + 1

RECURSIVE CountLF(_)
\* the number of LF characters of a UTF-8 text
CountLF(str) ==
    IF str = <<>> THEN 0
    ELSE (IF Head(str) = LF THEN 1 ELSE 0) + CountLF(Tail(str))

\* the number of source line breaks (LF, CR, CRLF once) that end in the
\* first n bytes of t
SourceBreaks(t, n) ==
    Cardinality({ i \in 1..n :
                    \/ t[i] = CR
                    \/ t[i] = LF /\ ByteAt(t, i - 2) # CR })

\* C12 (as claimed): after Pop calls on a fresh scanner the line is 1 plus
\* the number of those calls that returned LF.
C12_LineCountsReturnedBreaks ==
    markedPos = NewScanner.pos => pos.Line = 1 + CountLF(popped)

\* C12 (amended): after Pop calls on a fresh scanner the line is 1 plus the
\* number of source line breaks (a CRLF counting once) the calls consumed:
\* those returned as LF and those skipped after a backslash; it is 1 plus
\* the number of returned LF when no backslash was consumed.
C12_LineCountsConsumedBreaks ==
    /\ pos.Line = 1 + SourceBreaks(text, pos.Offset)
    /\ markedPos = NewScanner.pos =>
          /\ pos.Line >= 1 + CountLF(popped)
          /\ (\A i \in 1..pos.Offset : text[i] # Backslash) =>
                pos.Line = 1 + CountLF(popped)

\* a Pop() that skipped an escaped break and returned what follows it
C12_Witness ==
    /\ op = "Pop" /\ ret.Rune # EOF /\ markedPos = NewScanner.pos
    /\ pos.Line > 1 + CountLF(popped)

\* C13: the span PopSpan() returns starts at the position before the call
\* and ends at the position after it; the end offset of a non-sentinel span
\* is greater than its start offset.
C13_PopSpanExtent ==
    op = "PopSpan" =>
        /\ ret.Pos = prev.pos
        /\ ret.End = pos
        /\ ret.Rune # EOF => ret.End.Offset > ret.Pos.Offset

\* a PopSpan() of a character that takes more than one byte
C13_Witness ==
    op = "PopSpan" /\ ret.Rune # EOF /\ ret.End.Offset > ret.Pos.Offset + 1

\* C14 (as claimed): a sentinel span returned by PopSpan, PeekSpan or
\* NextSpan starts and ends at the scanner's current position.
C14_EOFSpanIsEmpty ==
    (op \in {"PopSpan", "PeekSpan", "NextSpan"} /\ ret.Rune = EOF) =>
        ret.Pos = ret.End /\ ret.End = pos

\* C15 (as claimed): SliceInc() is Slice() followed by the text of the
\* character the next Pop() returns, and is Slice() when that Pop() returns
\* the sentinel.
C15_SliceIncIsSlicePlusNext ==
    op = "SliceInc" =>
        /\ ret.Ok
        /\ ret.Str = SliceOf(text, prev).str \o TextOf(PopOf(text, prev).r)

\* the bytes of the text from the mark to the position
RawSinceMark == SubSeq(text, markedPos.Offset + 1, pos.Offset)

\* str has a CR, or a backslash right before a line break
HasComplex(str) ==
    \E i \in 1..Len(str) :
        \/ str[i] = CR
        \/ str[i] = Backslash /\ i < Len(str) /\ str[i + 1] \in {LF, CR}

\* C16: without SetPos, Slice() is the normalization of the bytes from the
\* mark to the position whether or not the flag is set: while the flag is
\* clear those bytes have no CR and no backslash before a line break.
C16_FastPathIsNormalization ==
    /\ op = "Slice" => ret.Ok /\ ret.Str = Normalize(RawSinceMark)
    /\ ~isComplexSinceMark =>
          ~HasComplex(RawSinceMark) /\ Normalize(RawSinceMark) = RawSinceMark

\* a Slice() that had to normalize
C16_Witness ==
    op = "Slice" /\ isComplexSinceMark /\ ret.Str # RawSinceMark

\* C17: Slice() and SliceInc() return the empty string when the offset of
\* the mark is at or past the length of the text, wherever the position is.
C17_MarkAtEndSlicesEmpty ==
    (op \in {"Slice", "SliceInc"} /\ prev.markedPos.Offset >= Len(text)) =>
        ret.Ok /\ ret.Str = <<>>

\* a Slice() or SliceInc() with the mark past the end and the position
\* before it
C17_Witness ==
    /\ op \in {"Slice", "SliceInc"}
    /\ prev.markedPos.Offset > Len(text)
    /\ prev.pos.Offset < Len(text)

\* C18: Mark() sets the mark to the position, clears the flag and leaves the
\* position; Slice() right after it is empty; no other call moves the mark,
\* and Slice() returns the bytes from the mark to the position, raw or
\* normalized.
C18_MarkRestartsSlice ==
    /\ op = "Mark" =>
          /\ markedPos = prev.pos
          /\ pos = prev.pos
          /\ ~isComplexSinceMark
          /\ SliceOf(text, Scanner).ok
          /\ SliceOf(text, Scanner).str = <<>>
    /\ op \notin {"Mark", "NewScanner"} => markedPos = prev.markedPos
    /\ op = "Slice" =>
          /\ ret.Str \in {RawSinceMark, Normalize(RawSinceMark)}
          /\ Len(ret.Str) <= pos.Offset - markedPos.Offset

\* a Mark() after an earlier Mark() and a Pop() that set the flag
C18_Witness ==
    /\ op = "Mark" /\ prev.isComplexSinceMark
    /\ prev.markedPos.Offset > 0 /\ pos.Offset > prev.markedPos.Offset

\* C19 (as claimed): Slice() and SliceInc() leave the position, the mark and
\* the flag as they were.
C19_SliceChangesNothing ==
    op \in {"Slice", "SliceInc"} => Scanner = prev

\* C20 (as claimed): after Pop and Mark calls only, the flag is set exactly
\* when the text consumed since the mark has a CR or a backslash before a
\* line break.
C20_FlagIffComplexConsumed ==
    isComplexSinceMark <=> HasComplex(RawSinceMark)

\* C21: SetPos(p) makes the position exactly p, whether p is before the
\* text, inside it or past its end, and leaves the mark and the flag; the
\* next Pop() and Peek() return the sentinel without moving when p is out of
\* range and otherwise read the character encoded at byte offset p.Offset.
C21_SetPosOverwritesPosition ==
    /\ \A p \in JumpPositions(text) :
          SetPosOf(Scanner, p) = ScannerRec(p, markedPos, isComplexSinceMark)
    /\ op = "SetPos" =>
          /\ pos \in JumpPositions(text)
          /\ markedPos = prev.markedPos
          /\ isComplexSinceMark = prev.isComplexSinceMark
          /\ LET res == PopOf(text, Scanner)
                 d   == DecodeRuneInString(text, pos.Offset)
             IN /\ PeekOf(text, Scanner).r = res.r
                /\ PeekOf(text, Scanner).s.pos = pos
                /\ (pos.Offset < 0 \/ pos.Offset >= Len(text)) =>
                      res.r = EOF /\ res.s = Scanner
                /\ (0 <= pos.Offset /\ pos.Offset < Len(text)) =>
                      /\ res.s.pos.Offset >= pos.Offset + d.w
                      /\ d.r \in {LF, CR} => res.r = LF
                      /\ d.r \notin {LF, CR, Backslash} =>
                            /\ res.r = d.r
                            /\ res.s.pos.Offset = pos.Offset + d.w

\* a SetPos to before the text, from inside it, with a mark and a set flag
C21_Witness ==
    /\ op = "SetPos" /\ pos.Offset < 0 /\ prev.pos.Offset > 0
    /\ markedPos.Offset > 0 /\ isComplexSinceMark

\* C22: only Mark() changes what Marked() returns: after Mark() it is the
\* position of the call, after every other call, SetPos included, it is
\* what it was before.
C22_OnlyMarkMovesMark ==
    /\ op = "Mark" => MarkedOf(Scanner) = prev.pos
    /\ op # "Mark" => MarkedOf(Scanner) = MarkedOf(prev)

\* a SetPos away from a mark that Mark() had set after the start
C22_Witness ==
    /\ op = "SetPos" /\ pos # prev.pos /\ MarkedOf(Scanner) = prev.pos
    /\ MarkedOf(Scanner).Col > 1

\* C23 (as claimed): with positions from SetPos and NewScannerAt, before or
\* past the text, before or after any Mark, none of Pop, Peek, Next, IsEOF,
\* Mark, Slice and SliceInc faults.
C23_NoFaultOutOfRange ==
    op \in {"Pop", "Peek", "Next", "IsEOF", "Mark", "Slice", "SliceInc"} =>
        ret.Ok

\* the offset is inside the text and no valid encoding starts there
MalformedAt(t, off) ==
    0 <= off /\ off < Len(t) /\ DecodeRuneInString(t, off).r = RuneError

\* C24 (as claimed): a Pop() at an offset inside the text where no valid
\* encoding starts returns the sentinel and does not move.
C24_MalformedIsEOF ==
    (op \in PopOps /\ MalformedAt(text, prev.pos.Offset)) =>
        ret.Rune = EOF /\ pos = prev.pos

\* C25: in every state, those made by SetPos and NewScannerAt included,
\* IsEOF() is true exactly when the offset is negative or at least the byte
\* length of the text: true for the empty text at offset 0, false at the
\* last byte of a text; and IsEOF() changes nothing.
C25_IsEOFByOffset ==
    /\ IsEOFOf(text, Scanner) <=> (pos.Offset < 0 \/ pos.Offset >= Len(text))
    /\ (Len(text) = 0 /\ pos.Offset = 0) => IsEOFOf(text, Scanner)
    /\ (Len(text) > 0 /\ pos.Offset = Len(text) - 1) =>
          ~IsEOFOf(text, Scanner)
    /\ op = "IsEOF" =>
          /\ ret.Bool <=> (prev.pos.Offset < 0 \/ prev.pos.Offset >= Len(text))
          /\ Scanner = prev

\* an IsEOF() before the start of a text that is not empty
C25_Witness ==
    op = "IsEOF" /\ ret.Bool /\ prev.pos.Offset < 0 /\ Len(text) > 0

RECURSIVE PopSpans(_, _)
\* the spans repeated PopSpan calls return from s, up to the first sentinel
PopSpans(t, s) ==
    LET res == PopSpanOf(t, s)
    IN IF res.span.Rune = EOF THEN <<>>
       ELSE <<res.span>> \o PopSpans(t, res.s)

\* C26: ForEach(text, fn) calls fn on the spans of repeated PopSpan calls on
\* a fresh scanner, in order and once each, never on the sentinel span and
\* never again after fn returned false; when ForEach has returned, the last
\* call returned false or fn has been called on every span before the
\* sentinel.
C26_ForEachCallsPrefix ==
    fn = "func" =>
        LET all == PopSpans(text, NewScanner)
            n   == Len(calls)
        IN /\ n <= Len(all)
           /\ \A i \in 1..n :
                 /\ calls[i].span = all[i]
                 /\ calls[i].span.Rune # EOF
           /\ \A i \in 1..(n - 1) : calls[i].ok
           /\ (pc # "returned" /\ n > 0) => calls[n].ok
           /\ pc = "returned" =>
                 IF n > 0 /\ ~calls[n].ok
                 THEN \A i \in 1..n : ~calls[i].ok => i = n
                 ELSE n = Len(all)
           /\ pc # "panicked"

\* a ForEach that fn stopped at the second of three spans
C26_Witness ==
    /\ fn = "func" /\ pc = "returned" /\ Len(calls) = 2 /\ ~calls[2].ok
    /\ Len(PopSpans(text, NewScanner)) = 3

\* C27 (as claimed): ForEach with a nil fn never returns normally.
C27_NilPredicateFaults ==
    fn = "nil" => pc # "returned"

\* what the consumer has received is the start of the spans of repeated
\* PopSpan calls on a fresh scanner, and all of them once the channel is
\* closed
StreamDelivered ==
    LET all == PopSpans(text, NewScanner)
    IN /\ Len(calls) <= Len(all)
       /\ \A i \in 1..Len(calls) :
             /\ calls[i].span = all[i]
             /\ calls[i].span.Rune # EOF
             /\ calls[i].ok
       /\ closed => Len(calls) = Len(all)
       /\ consumer = "finished" => closed
       /\ text = <<>> => calls = <<>>

\* C28: with a consumer that keeps receiving, the spans received from
\* Stream(text) are, in order, those of repeated PopSpan calls on a fresh
\* scanner up to the sentinel span, which is not sent; and in the end the
\* producer has closed the channel and terminated.
C28_StreamDeliversAll ==
    []StreamDelivered /\ <>(closed /\ pc = "done" /\ consumer = "finished")

\* a closed channel after two spans of a text with an escaped line break
C28_Witness ==
    /\ closed /\ pc = "done" /\ Len(calls) = 2 /\ isComplexSinceMark
    /\ consumer = "finished"

\* C29 (as claimed): when the consumer stops receiving, the producer of
\* Stream still terminates in the end.
C29_ProducerTerminates ==
    (consumer = "stopped") ~> (pc = "done")

\* the number of characters of a UTF-8 text
RuneCount(str) ==
    Cardinality({ i \in 1..Len(str) : str[i] < 128 \/ str[i] >= 192 })

\* C30: in every interleaving of the producer and the consumer of Stream,
\* the producer has popped at most one span that the consumer has not
\* received, and it has one exactly while it is at its send: it pops the
\* next span only after the send of the last one is complete.
C30_OneSpanInFlight ==
    LET inFlight == RuneCount(popped) - Len(calls)
    IN /\ inFlight \in {0, 1}
       /\ inFlight = 1 <=> pc = "send"
       /\ pc = "pop" => inFlight = 0

\* a span popped after another was received, held at the send because the
\* consumer has stopped
C30_Witness ==
    pc = "send" /\ Len(calls) >= 1 /\ consumer = "stopped"

\* C31 (as claimed): PopN(n), wherever the mark is, returns the text of the
\* non-sentinel characters that n Pop calls from the position return, and
\* leaves the position where those calls leave it.
C31_PopNIsPoppedText ==
    \A n \in 0..MaxN :
        LET res == PopNOf(text, Scanner, n)
            ref == PopTimes(text, Scanner, n)
        IN /\ res.ok
           /\ res.str = ref.out
           /\ res.s.pos = ref.s.pos

C33_PeekKeepsSlice ==
    op = "Peek" =>
        /\ SliceOf(text, Scanner).ok = SliceOf(text, prev).ok
        /\ SliceOf(text, Scanner).str = SliceOf(text, prev).str

\* the index of the last byte of the first n bytes of t that is a CR or an
\* LF, 0 when there is none
LastBreak(t, n) ==
    LET B == { i \in 1..n : t[i] \in {LF, CR} }
    IN IF B = {} THEN 0 ELSE CHOOSE i \in B : \A j \in B : j <= i

\* C34: without SetPos, line and column are functions of the offset: the
\* line is 1 plus the number of source line breaks (LF, CR, CRLF once) in
\* the text before the offset, the column 1 plus the number of source
\* characters between the last of these breaks and the offset, a character
\* of several bytes counting once.
C34_PositionFromOffset ==
    LET n == pos.Offset
    IN /\ pos.Line = 1 + SourceBreaks(text, n)
       /\ pos.Col = 1 + RuneCount(SubSeq(text, LastBreak(text, n) + 1, n))
       /\ markedPos.Line = 1 + SourceBreaks(text, markedPos.Offset)
       /\ markedPos.Col =
             1 + RuneCount(SubSeq(text, LastBreak(text, markedPos.Offset) + 1,
                                  markedPos.Offset))

\* a character of two bytes popped on the second line
C34_Witness ==
    op \in PopOps /\ ret.Rune = 233 /\ pos.Line = 2 /\ pos.Col = 2

\* C35: without SetPos, 0 <= mark offset <= offset <= length of the text; a
\* Pop() never moves the offset back and moves it forward when IsEOF() was
\* false; Slice, SliceInc, PopN and PeekN never read outside the text.
C35_OffsetsInRange ==
    /\ 0 <= markedPos.Offset
    /\ markedPos.Offset <= pos.Offset
    /\ pos.Offset <= Len(text)
    /\ op \in PopOps =>
          /\ pos.Offset >= prev.pos.Offset
          /\ ~IsEOFOf(text, prev) => pos.Offset > prev.pos.Offset
    /\ ret.Ok
    /\ SliceOf(text, Scanner).ok

\* a Pop() of more than one byte that reached the end, the mark inside
C35_Witness ==
    /\ op = "Pop" /\ markedPos.Offset > 0 /\ pos.Offset = Len(text)
    /\ pos.Offset > prev.pos.Offset + 1 /\ markedPos.Offset < pos.Offset

\* off is between the CR and the LF of a CRLF, or right after a backslash
\* that a CR or an LF follows
InsideSequence(t, off) ==
    \/ ByteAt(t, off - 1) = CR /\ ByteAt(t, off) = LF
    \/ ByteAt(t, off - 1) = Backslash /\ ByteAt(t, off) \in {LF, CR}

\* C36: without SetPos, neither the offset nor the offset of the mark is
\* between the CR and the LF of a CRLF or right after a backslash whose next
\* source character is CR or LF.
C36_NeverInsideSequence ==
    /\ ~InsideSequence(text, pos.Offset)
    /\ ~InsideSequence(text, markedPos.Offset)

\* a Pop() that ended right after a backslash, CR, LF
C36_Witness ==
    /\ ByteAt(text, pos.Offset - 3) = Backslash
    /\ ByteAt(text, pos.Offset - 2) = CR
    /\ ByteAt(text, pos.Offset - 1) = LF
    /\ op = "Pop"

RECURSIVE PopCalls(_, _)
\* the number of calls of Pop, the outermost one included, that one Pop()
\* from s makes
PopCalls(t, s) ==
    IF IsEOFOf(t, s) THEN 1
    ELSE LET d  == DecodeRuneInString(t, s.pos.Offset)
             s1 == Advance(s, d.w)
         IN IF d.r # Backslash THEN 1
            ELSE LET la == PopOf(t, s1)
                 IN 1 + PopCalls(t, s1)
                      + (IF la.r = LF
                         THEN PopCalls(t, [la.s EXCEPT
                                             !.isComplexSinceMark = TRUE])
                         ELSE 0)

RECURSIVE RemainingChars(_, _)
\* the number of characters Pop decodes from off to the end of t
RemainingChars(t, off) ==
    IF off < 0 \/ off >= Len(t) THEN 0
    ELSE 1 + RemainingChars(t, off + DecodeRuneInString(t, off).w)

\* C37: from every start position, before, inside (also inside a
\* character) or past the text, a Pop() makes at most as many lookahead
\* calls as characters remain from the offset, and a Pop() that returns a
\* character ends at a greater offset inside the text; so at most as many
\* Pop calls as the text has bytes return a character.
C37_PopTerminates ==
    /\ \A p \in JumpPositions(text) :
          LET s   == NewScannerAt(p)
              res == PopOf(text, s)
          IN /\ PopCalls(text, s) - 1 <= RemainingChars(text, p.Offset)
             /\ PopCalls(text, s) <= Len(text) + 1
             /\ res.r # EOF =>
                   /\ 0 <= p.Offset
                   /\ res.s.pos.Offset > p.Offset
                   /\ res.s.pos.Offset <= Len(text)
             /\ res.r = EOF => PopOf(text, res.s).r = EOF
    /\ (op \in PopOps /\ ret.Rune # EOF) =>
          pos.Offset > prev.pos.Offset /\ pos.Offset <= Len(text)
    /\ RuneCount(popped) <= Len(text)

\* a Pop() that made four lookahead calls
C37_Witness ==
    op = "Pop" /\ PopCalls(text, prev) = 5

====
